---- MODULE Spec2Model ----
(***************************************************************************)
(* opencode-sfx (src/src/index.ts): the sound resolution and playback      *)
(* engine.  The plugin bootstraps a sound tree on disk, scans one folder   *)
(* per logical event, resolves an external player, and then plays a        *)
(* randomly chosen clip for each host notification, tracking sessions so   *)
(* that "stop" is raised once per active episode.                          *)
(*                                                                         *)
(* The specifications share the variables:                                 *)
(*   Spec      the running plugin: PluginLoad, then one action per host    *)
(*             notification / hook;                                        *)
(*   SpecBoot  one call of bootstrapSoundFolders on an arbitrary tree;     *)
(*   SpecSeed  SpecBoot plus a direct call of seedBundledAssetsTree, the   *)
(*             contract of the tree merge on an arbitrary destination;     *)
(*   SpecTwice SpecBoot followed by the same call once more;               *)
(*   SpecPlayer resolvePlayer on an arbitrary configuration and host;      *)
(*   SpecScan  resolveEventSoundSets on an arbitrary folder listing;       *)
(*   SpecSelector pickSoundPath and removeMissingSoundPath applied in any  *)
(*             order to arbitrary candidate sets and selection memory.     *)
(***************************************************************************)
EXTENDS Integers, Sequences, FiniteSets, TLC

VARIABLES
    phase,                  \* "load" | "ready" (Spec); "boot" | "done" (SpecBoot/SpecSeed)
    config,                 \* SfxConfig, as loadConfig returned it
    host,                   \* process.platform, the commands `which` finds, the sessions the
                            \* host runs, and whether a spawned player can fail to start
    fs,                     \* the filesystem: path -> node
    fs0,                    \* the filesystem as it was before the last bootstrap call
    faults,                 \* the I/O operations that throw: {<<op, path>>}
    boot,                   \* what the last bootstrap call returned and did
    player,                 \* const player (index.ts:525)
    startupLog,             \* history: the warnings logged while loading (index.ts:544-550)
    soundSets,              \* const soundSets (index.ts:524)
    scanned,                \* history: soundSets as resolveEventSoundSets returned it
    lastPlayedIndices,      \* const lastPlayedIndices (index.ts:528)
    missingSoundWarnings,   \* const missingSoundWarnings (index.ts:526)
    activeSessions,         \* const activeSessions (index.ts:527)
    lastStatus,             \* history: the last status type observed per session
    warnCount,              \* history: "no supported sound files" warnings logged per event
    exhausted,              \* history: the events a trigger has found without candidates
    lastLaunched,           \* history: per event, the path its previous trigger launched
    children,               \* the events with a spawned player that can still report "error"
    last                    \* the last handler that ran and what it did

vars == <<phase, config, host, fs, fs0, faults, boot, player, startupLog, soundSets, scanned,
          lastPlayedIndices, missingSoundWarnings, activeSessions, lastStatus,
          warnCount, exhausted, lastLaunched, children, last>>

-----------------------------------------------------------------------------
(* Bounds *)

\* Sound files in the largest event folder.
MaxFiles == 3
\* Session identifiers the host sends.
MaxSessions == 2
\* I/O operations that fail during one bootstrap call.
MaxFaults == 1

-----------------------------------------------------------------------------
(* Names *)

SOUND_EVENTS ==
    <<"sessionStart", "sessionCreated", "promptSubmit", "notification", "permission", "stop">>

Events == {SOUND_EVENTS[i] : i \in 1..Len(SOUND_EVENTS)}

\* File names, in ascending localeCompare order.
NamePool == <<"a.ogg", "b.wav", "c.mp3", "d.ogg", "e.wav", "f.mp3">>

\* The sound files a folder of this model can hold.
FolderNames(e) ==
    IF e = "stop" THEN {NamePool[i] : i \in 1..MaxFiles}
    ELSE IF e = "permission" THEN {NamePool[i] : i \in 1..(MaxFiles - 2)}
    ELSE {}

\* The names a scanned folder can hold besides the sound files above: a hidden
\* file, names in other letter cases, other extensions, no extension, and names
\* that can belong to a sub-directory or to a link.
ScanNames ==
    {NamePool[1], NamePool[2], NamePool[3], ".hidden.ogg", "A.OGG", "Z.Mp3", "d.txt",
     "g.ogg.txt", "ogg", "h.", "sub.wav", "link.mp3"}

\* The characters of a name.
Spelling(n) ==
    CASE n = "a.ogg" -> <<"a", ".", "o", "g", "g">>
      [] n = "b.wav" -> <<"b", ".", "w", "a", "v">>
      [] n = "c.mp3" -> <<"c", ".", "m", "p", "3">>
      [] n = "d.ogg" -> <<"d", ".", "o", "g", "g">>
      [] n = "e.wav" -> <<"e", ".", "w", "a", "v">>
      [] n = "f.mp3" -> <<"f", ".", "m", "p", "3">>
      [] n = ".hidden.ogg" -> <<".", "h", "i", "d", "d", "e", "n", ".", "o", "g", "g">>
      [] n = "A.OGG" -> <<"A", ".", "O", "G", "G">>
      [] n = "Z.Mp3" -> <<"Z", ".", "M", "p", "3">>
      [] n = "d.txt" -> <<"d", ".", "t", "x", "t">>
      [] n = "g.ogg.txt" -> <<"g", ".", "o", "g", "g", ".", "t", "x", "t">>
      [] n = "ogg" -> <<"o", "g", "g">>
      [] n = "h." -> <<"h", ".">>
      [] n = "sub.wav" -> <<"s", "u", "b", ".", "w", "a", "v">>
      [] n = "link.mp3" -> <<"l", "i", "n", "k", ".", "m", "p", "3">>

SUPPORTED_AUDIO_EXTENSIONS ==
    {<<".", "o", "g", "g">>, <<".", "w", "a", "v">>, <<".", "m", "p", "3">>}

CONFIG_DIR == <<"cfg">>
CONFIG_PATH == CONFIG_DIR \o <<"sfx.json">>
DEFAULT_SOUND_ROOT == CONFIG_DIR \o <<"sfx", "sounds">>
BUNDLED_ASSETS_ROOT == <<"pkg", "assets">>
\* A configured absolute soundRoot that names the bundled directory unnormalised.
AssetsAlias == BUNDLED_ASSETS_ROOT \o <<".">>
ExternalStopFolder == <<"ext", "stop">>
ScanFolder == <<"scan">>

None == "none"

-----------------------------------------------------------------------------
(* Paths and the filesystem *)

\* path.resolve / path.normalize on an absolute path: "." segments vanish.
resolve(p) == SelectSeq(p, LAMBDA c : c # ".")

\* path.join: concatenates and normalises.
join(p, name) == resolve(p \o <<name>>)

Parent(p) == SubSeq(p, 1, Len(p) - 1)

IsPrefix(a, p) == Len(a) <= Len(p) /\ SubSeq(p, 1, Len(a)) = a

Roots == {DEFAULT_SOUND_ROOT, BUNDLED_ASSETS_ROOT}

Paths ==
    {<<>>, <<"cfg">>, <<"cfg", "sfx">>, <<"pkg">>, <<"ext">>, ExternalStopFolder}
    \cup Roots
    \cup {join(r, "README.md") : r \in Roots}
    \cup {join(r, e) : r \in Roots, e \in Events}
    \cup UNION {{join(join(r, e), n) : n \in FolderNames(e)} : r \in Roots, e \in Events}
    \cup {join(ExternalStopFolder, n) : n \in FolderNames("stop")}
    \cup {join(BUNDLED_ASSETS_ROOT, "link")}
    \cup {ScanFolder} \cup {join(ScanFolder, n) : n \in ScanNames}

Absent == [kind |-> "absent", data |-> ""]
Dir == [kind |-> "dir", data |-> ""]
Other == [kind |-> "other", data |-> ""]
File(d) == [kind |-> "file", data |-> d]

\* Every existing path lies in a directory.
WellFormed(t) ==
    /\ t[<<>>] = Dir
    /\ \A p \in Paths \ {<<>>} : t[p].kind # "absent" => t[Parent(p)].kind = "dir"

existsSync(t, p) == t[resolve(p)].kind # "absent"

isDirectory(t, p) == t[resolve(p)].kind = "dir"

Fails(f, op, p) == <<op, resolve(p)>> \in f

-----------------------------------------------------------------------------
(* Bootstrap Seeder *)

Warning(kind, p) == [kind |-> kind, path |-> p]
NoWarning == Warning("none", <<>>)

\* mkdirSync(p, {recursive: true}): creates p and every missing ancestor; throws
\* when an ancestor is not a directory (ENOTDIR) or the call is denied.
mkdirThrows(t, p, f) ==
    \/ Fails(f, "mkdir", p)
    \/ \E a \in Paths : IsPrefix(a, resolve(p)) /\ t[a].kind \notin {"absent", "dir"}

\* A variant that creates one missing level per call instead of all of them.
mkdirSync_oneLevel(t, p) ==
    [x \in Paths |-> IF /\ IsPrefix(x, resolve(p)) /\ t[x].kind = "absent"
                        /\ t[Parent(x)].kind = "dir"
                     THEN Dir ELSE t[x]]

mkdirSync(t, p) ==
    [x \in Paths |-> IF IsPrefix(x, resolve(p)) /\ t[x].kind = "absent" THEN Dir ELSE t[x]]

\* A variant that reports nothing when the path is not a directory.
ensureDirectory_silent(t, pathValue, f) ==
    IF existsSync(t, pathValue)
    THEN [fs |-> t, warning |-> NoWarning]
    ELSE IF mkdirThrows(t, pathValue, f)
         THEN [fs |-> t, warning |-> Warning("create-failed", pathValue)]
         ELSE [fs |-> mkdirSync(t, pathValue), warning |-> NoWarning]

ensureDirectory(t, pathValue, f) ==
    IF existsSync(t, pathValue)
    THEN IF Fails(f, "stat", pathValue)
         THEN [fs |-> t, warning |-> Warning("inspect-failed", pathValue)]
         ELSE IF isDirectory(t, pathValue)
              THEN [fs |-> t, warning |-> NoWarning]
              ELSE [fs |-> t, warning |-> Warning("not-a-directory", pathValue)]
    ELSE IF mkdirThrows(t, pathValue, f)
         THEN [fs |-> t, warning |-> Warning("create-failed", pathValue)]
         ELSE [fs |-> mkdirSync(t, pathValue), warning |-> NoWarning]

\* readdirSync(dir, {withFileTypes: true}): the paths of the entries of dir.
readdirThrows(t, dir, f) == Fails(f, "readdir", dir) \/ ~isDirectory(t, dir)

readdirSync(t, dir) ==
    {p \in Paths : p # <<>> /\ Parent(p) = resolve(dir) /\ t[p].kind # "absent"}

BaseName(p) == p[Len(p)]

\* copyFileSync(src, dst): throws when denied or when dst has no directory to
\* live in; otherwise dst holds the content of src (an existing dst is replaced).
copyThrows(t, dst, f) ==
    \/ Fails(f, "copy", dst)
    \/ ~isDirectory(t, Parent(resolve(dst)))
    \/ t[resolve(dst)].kind \in {"dir", "other"}

copyFileSync(t, src, dst) == [t EXCEPT ![resolve(dst)] = t[resolve(src)]]

\* A variant of the guard of line 348 that never finds the destination taken.
destinationTaken_never(t, destinationPath) == FALSE

\* if (existsSync(destinationPath)) continue   (index.ts:348)
destinationTaken(t, destinationPath) == existsSync(t, destinationPath)

\* A variant of the loop that gives up on the first entry that left a warning.
remaining_abortOnWarning(st, next, rest) ==
    IF next.warnings # st.warnings THEN {} ELSE rest

\* The entries the for loop still visits after one entry took the tree from st
\* to next: every warning is followed by continue or ends a catch block, so
\* the loop goes on with all of them (index.ts:336-339, 352-359).
remaining(st, next, rest) == rest

RECURSIVE copyEntries(_, _, _, _, _)
RECURSIVE copyDirectoryTree(_, _, _, _)

\* One pass of the for loop of copyDirectoryTree (index.ts:325-360) over the
\* entries still to visit; st = [fs, warnings, copied].
copyEntries(st, entries, sourceDir, destinationDir, f) ==
    IF entries = {} THEN st
    ELSE
      LET sourcePath == CHOOSE p \in entries : TRUE
          rest == entries \ {sourcePath}
          destinationPath == join(destinationDir, BaseName(sourcePath))
          next ==
            IF st.fs[sourcePath].kind = "dir"
            THEN LET r == ensureDirectory(st.fs, destinationPath, f)
                 IN IF r.warning # NoWarning
                    THEN [st EXCEPT !.warnings = Append(@, r.warning)]
                    ELSE copyDirectoryTree([st EXCEPT !.fs = r.fs],
                                           sourcePath, destinationPath, f)
            ELSE IF st.fs[sourcePath].kind # "file"
            THEN st
            ELSE IF destinationTaken(st.fs, destinationPath)
            THEN st
            ELSE IF copyThrows(st.fs, destinationPath, f)
            THEN [st EXCEPT !.warnings = Append(@, Warning("copy-failed", destinationPath))]
            ELSE [st EXCEPT !.fs = copyFileSync(@, sourcePath, destinationPath),
                            !.copied = @ \cup {destinationPath}]
      IN copyEntries(next, remaining(st, next, rest), sourceDir, destinationDir, f)

copyDirectoryTree(st, sourceDir, destinationDir, f) ==
    IF readdirThrows(st.fs, sourceDir, f)
    THEN [st EXCEPT !.warnings = Append(@, Warning("read-failed", sourceDir))]
    ELSE copyEntries(st, readdirSync(st.fs, sourceDir), sourceDir, destinationDir, f)

seedBundledAssetsTree(st, soundRoot, f) ==
    IF resolve(soundRoot) = resolve(BUNDLED_ASSETS_ROOT)
    THEN st
    ELSE IF ~existsSync(st.fs, BUNDLED_ASSETS_ROOT)
    THEN [st EXCEPT !.warnings = Append(@, Warning("assets-not-found", BUNDLED_ASSETS_ROOT))]
    ELSE IF Fails(f, "stat", BUNDLED_ASSETS_ROOT)
    THEN [st EXCEPT !.warnings = Append(@, Warning("inspect-failed", BUNDLED_ASSETS_ROOT))]
    ELSE IF ~isDirectory(st.fs, BUNDLED_ASSETS_ROOT)
    THEN [st EXCEPT !.warnings = Append(@, Warning("assets-not-a-directory", BUNDLED_ASSETS_ROOT))]
    ELSE copyDirectoryTree(st, BUNDLED_ASSETS_ROOT, soundRoot, f)

RECURSIVE ensureEventFolders(_, _, _, _)
\* The for loop of bootstrapSoundFolders (index.ts:265-274), from event i on.
ensureEventFolders(st, eventFolders, f, i) ==
    IF i > Len(SOUND_EVENTS) THEN st
    ELSE LET r == ensureDirectory(st.fs, eventFolders[SOUND_EVENTS[i]], f)
             next == [st EXCEPT !.fs = r.fs,
                                !.warnings = IF r.warning # NoWarning
                                             THEN Append(@, r.warning) ELSE @]
         IN ensureEventFolders(next, eventFolders, f, i + 1)

\* A variant that seeds whenever the root is usable, new or not.
seedsTree_always(rootExistsAtStartup, rootWarning) == rootWarning = NoWarning

\* Whether the call goes on to seed, as line 276 decides it.
seedsTree(rootExistsAtStartup, rootWarning) ==
    ~rootExistsAtStartup /\ rootWarning = NoWarning

bootstrapSoundFolders(t, soundRoot, eventFolders, f) ==
    LET rootExistsAtStartup == existsSync(t, soundRoot)
        r == ensureDirectory(t, soundRoot, f)
        rootWarning == r.warning
        st0 == [fs |-> r.fs,
                warnings |-> IF rootWarning # NoWarning THEN <<rootWarning>> ELSE <<>>,
                copied |-> {}]
        st1 == ensureEventFolders(st0, eventFolders, f, 1)
    IN IF seedsTree(rootExistsAtStartup, rootWarning)
       THEN seedBundledAssetsTree(st1, soundRoot, f)
       ELSE st1

\* resolveEventFolders: the configured folder, or soundRoot/<event>.
resolveEventFolders(cfg) ==
    [e \in Events |->
        IF cfg.eventFolders[e] # <<>> THEN cfg.eventFolders[e] ELSE join(cfg.soundRoot, e)]

-----------------------------------------------------------------------------
(* Configuration and the trees a bootstrap call can meet *)

DEFAULT_EVENTS == [e \in Events |-> TRUE]

NoFolders == [e \in Events |-> <<>>]

\* defaultConfig(): what loadConfig returns when no file overrides anything.
DEFAULT_CONFIG ==
    [enabled |-> TRUE, playerCommand |-> <<>>, playerArgs |-> <<>>,
     events |-> DEFAULT_EVENTS, soundRoot |-> DEFAULT_SOUND_ROOT,
     eventFolders |-> NoFolders]

\* The bundled tree: README.md, one folder of clips for "stop" and one for
\* "permission", and one entry that is neither a file nor a directory.
BundledNode(p) ==
    IF p = BUNDLED_ASSETS_ROOT THEN Dir
    ELSE IF p = join(BUNDLED_ASSETS_ROOT, "README.md") THEN File("bundled")
    ELSE IF p = join(BUNDLED_ASSETS_ROOT, "link") THEN Other
    ELSE IF \E e \in Events : FolderNames(e) # {} /\ p = join(BUNDLED_ASSETS_ROOT, e) THEN Dir
    ELSE IF \E e \in Events : \E n \in FolderNames(e) :
                p = join(join(BUNDLED_ASSETS_ROOT, e), n) THEN File("bundled")
    ELSE Absent

\* What the user's side of the disk looks like before the call.
DestShapes ==
    {sh \in [cfg : {"absent", "file", "dir"}, root : {"absent", "file", "dir"},
             stop : {"absent", "file", "dir"}, perm : {"absent", "dir"},
             others : BOOLEAN, readme : {"absent", "file", "dir"},
             userSound : BOOLEAN] :
        /\ sh.root # "absent" => sh.cfg = "dir"
        /\ sh.root # "dir" =>
              /\ sh.stop = "absent" /\ sh.perm = "absent" /\ ~sh.others
              /\ sh.readme = "absent"
        /\ sh.userSound => sh.stop = "dir"}

KindNode(k, d) ==
    IF k = "dir" THEN Dir ELSE IF k = "file" THEN File(d) ELSE Absent

DestNode(sh, p) ==
    LET root == DEFAULT_SOUND_ROOT IN
    IF p = <<"cfg">> THEN KindNode(sh.cfg, "user")
    ELSE IF p = <<"cfg", "sfx">> THEN (IF sh.root # "absent" THEN Dir ELSE Absent)
    ELSE IF p = root THEN KindNode(sh.root, "user")
    ELSE IF p = join(root, "stop") THEN KindNode(sh.stop, "user")
    ELSE IF p = join(root, "permission") THEN KindNode(sh.perm, "user")
    ELSE IF p = join(root, "README.md") THEN KindNode(sh.readme, "user")
    ELSE IF p = join(join(root, "stop"), NamePool[1])
         THEN (IF sh.userSound THEN File("user") ELSE Absent)
    ELSE IF \E e \in Events \ {"stop", "permission"} : p = join(root, e)
         THEN (IF sh.others THEN Dir ELSE Absent)
    ELSE Absent

MakeTree(sh, assets) ==
    [p \in Paths |->
        IF p \in {<<>>, <<"pkg">>} THEN Dir
        ELSE IF IsPrefix(BUNDLED_ASSETS_ROOT, p)
        THEN (IF assets = "tree" THEN BundledNode(p)
              ELSE IF assets = "file" /\ p = BUNDLED_ASSETS_ROOT THEN File("bundled")
              ELSE Absent)
        ELSE DestNode(sh, p)]

InitTrees == {MakeTree(sh, a) : sh \in DestShapes, a \in {"tree", "absent", "file"}}

\* The configurations of the sound tree a call is made with.
BootConfigs ==
    {[DEFAULT_CONFIG EXCEPT !.soundRoot = r, !.eventFolders["stop"] = sf] :
        r \in {DEFAULT_SOUND_ROOT, AssetsAlias}, sf \in {<<>>, ExternalStopFolder}}

\* The calls that can be made to throw.
FaultPoints ==
    {<<"mkdir", DEFAULT_SOUND_ROOT>>, <<"stat", DEFAULT_SOUND_ROOT>>,
     <<"mkdir", join(DEFAULT_SOUND_ROOT, "stop")>>,
     <<"mkdir", join(DEFAULT_SOUND_ROOT, "sessionStart")>>,
     <<"readdir", BUNDLED_ASSETS_ROOT>>,
     <<"readdir", join(BUNDLED_ASSETS_ROOT, "stop")>>,
     <<"copy", join(DEFAULT_SOUND_ROOT, "README.md")>>,
     <<"copy", join(join(DEFAULT_SOUND_ROOT, "stop"), NamePool[1])>>}

FaultSets == {f \in SUBSET FaultPoints : Cardinality(f) <= MaxFaults}

-----------------------------------------------------------------------------
(* The engine's state before the plugin function has run *)

NoPlayer == [command |-> <<>>, args |-> <<>>]

NoBoot == [op |-> None, soundRoot |-> <<>>, eventFolders |-> NoFolders,
           warnings |-> <<>>, copied |-> {}]

NoIndices == [e \in {} |-> 0]

NoLaunch == [command |-> <<>>, args |-> <<>>, path |-> <<>>]

NoPath == <<>>

\* What one call of play(eventName) did.  present: the selected paths that
\* existsSync found on disk during the call; picks: the paths pickSoundPath
\* returned, in order; evicted: the paths removeMissingSoundPath was called with;
\* candidates: the event's candidate list when the call began.
\* Each pick is [prev, n, index, path]: the event's selection memory before the
\* call (a set: empty when absent), the number of candidates, and the result.
\* previous: the path the previous trigger of the event launched, if it did;
\* errors: the error-level messages logged.
NoPlay == [event |-> None, shortCircuit |-> FALSE, candidates |-> <<>>,
           previous |-> <<>>, present |-> {}, picks |-> <<>>, errors |-> 0,
           evicted |-> <<>>, launched |-> NoLaunch, warned |-> FALSE]

\* The last notification handled: its type and properties, the triggers it
\* raised (the arguments of its play calls) and what play did.
Handler(type, session, status, command, triggers, rec) ==
    [type |-> type, session |-> session, status |-> status, command |-> command,
     triggers |-> triggers, play |-> rec]

NoHandler == Handler(None, 0, None, None, <<>>, NoPlay)

Sessions == 1..MaxSessions

EngineUnloaded ==
    /\ player = NoPlayer
    /\ startupLog = <<>>
    /\ soundSets = [e \in Events |-> <<>>]
    /\ scanned = soundSets
    /\ lastPlayedIndices = NoIndices
    /\ missingSoundWarnings = {}
    /\ activeSessions = {}
    /\ lastStatus = [s \in Sessions |-> None]
    /\ warnCount = [e \in Events |-> 0]
    /\ exhausted = {}
    /\ lastLaunched = [e \in Events |-> NoPath]
    /\ children = {}
    /\ last = NoHandler

engineVars == <<player, startupLog, soundSets, scanned, lastPlayedIndices, missingSoundWarnings,
                activeSessions, lastStatus, warnCount, exhausted, lastLaunched, children, last>>

-----------------------------------------------------------------------------
(* SpecBoot: one bootstrap call *)

InitBoot ==
    /\ phase = "boot"
    /\ config \in BootConfigs
    /\ host = [platform |-> "linux", installed |-> {}, sessions |-> {}, spawnFails |-> FALSE]
    /\ fs \in InitTrees
    /\ fs0 = fs
    /\ faults \in FaultSets
    /\ boot = NoBoot
    /\ EngineUnloaded

BootRecord(op, cfg, st) ==
    [op |-> op, soundRoot |-> cfg.soundRoot, eventFolders |-> resolveEventFolders(cfg),
     warnings |-> st.warnings, copied |-> st.copied]

\* bootstrapSoundFolders(config.soundRoot, eventFolders), index.ts:523.
Bootstrap ==
    /\ phase = "boot"
    /\ LET st == bootstrapSoundFolders(fs, config.soundRoot, resolveEventFolders(config), faults)
       IN /\ fs' = st.fs
          /\ boot' = BootRecord("bootstrap", config, st)
    /\ fs0' = fs
    /\ phase' = "done"
    /\ UNCHANGED <<config, host, faults>>
    /\ UNCHANGED engineVars

\* seedBundledAssetsTree(soundRoot) on its own: the tree merge into whatever the
\* destination holds.
SeedTree ==
    /\ phase = "boot"
    /\ LET st == seedBundledAssetsTree([fs |-> fs, warnings |-> <<>>, copied |-> {}],
                                       config.soundRoot, faults)
       IN /\ fs' = st.fs
          /\ boot' = BootRecord("seed", config, st)
    /\ fs0' = fs
    /\ phase' = "done"
    /\ UNCHANGED <<config, host, faults>>
    /\ UNCHANGED engineVars

NextBoot == Bootstrap

SpecBoot == InitBoot /\ [][NextBoot]_vars

NextSeed == Bootstrap \/ SeedTree

SpecSeed == InitBoot /\ [][NextSeed]_vars

\* The same call made once more, on the tree the first call left, with the same
\* sound root and event folders and the same operations failing.
BootstrapAgain ==
    /\ phase = "done"
    /\ boot.op = "bootstrap"
    /\ LET st == bootstrapSoundFolders(fs, config.soundRoot, resolveEventFolders(config), faults)
       IN /\ fs' = st.fs
          /\ boot' = BootRecord("again", config, st)
    /\ fs0' = fs
    /\ phase' = "again"
    /\ UNCHANGED <<config, host, faults>>
    /\ UNCHANGED engineVars

NextTwice == Bootstrap \/ BootstrapAgain

SpecTwice == InitBoot /\ [][NextTwice]_vars

TypeOKBoot == WellFormed(fs) /\ WellFormed(fs0)

-----------------------------------------------------------------------------
(* Folder Scanner *)

\* name.startsWith(".")
startsWithDot(chars) == Len(chars) >= 1 /\ chars[1] = "."

\* path.extname: from the last "." of the name to its end; empty when the name
\* has no "." or only the one it starts with.
extname(chars) ==
    LET dots == {i \in 1..Len(chars) : chars[i] = "."}
    IN IF dots = {} THEN <<>>
       ELSE LET k == CHOOSE i \in dots : \A j \in dots : j <= i
            IN IF k = 1 THEN <<>> ELSE SubSeq(chars, k, Len(chars))

UpperCase == <<"A", "G", "M", "O", "Z">>
LowerCase == <<"a", "g", "m", "o", "z">>

lowerChar(c) ==
    IF \E i \in 1..Len(UpperCase) : UpperCase[i] = c
    THEN LowerCase[CHOOSE i \in 1..Len(UpperCase) : UpperCase[i] = c]
    ELSE c

\* A variant that leaves the letter case alone.
toLowerCase_none(chars) == chars

\* String.prototype.toLowerCase
toLowerCase(chars) == [i \in 1..Len(chars) |-> lowerChar(chars[i])]

\* The entries readSoundFolder keeps (index.ts:375-381): regular files whose
\* name does not start with "." and has a supported extension.
isSoundEntry(t, p) ==
    /\ t[p].kind = "file"
    /\ ~startsWithDot(Spelling(BaseName(p)))
    /\ toLowerCase(extname(Spelling(BaseName(p)))) \in SUPPORTED_AUDIO_EXTENSIONS

\* The collation order of localeCompare: punctuation, digits, then letters in
\* alphabetical order whatever their case.
Collation ==
    <<".", "3", "a", "b", "c", "d", "e", "f", "g", "h", "i", "k", "l", "m", "n", "o",
      "p", "s", "t", "u", "v", "w", "x", "z">>

primaryKey(chars) ==
    [i \in 1..Len(chars) |-> CHOOSE k \in 1..Len(Collation) : Collation[k] = lowerChar(chars[i])]

\* Lower case sorts before upper case when the letters are the same.
tertiaryKey(chars) == [i \in 1..Len(chars) |-> IF lowerChar(chars[i]) = chars[i] THEN 0 ELSE 1]

RECURSIVE compareKeys(_, _)
\* -1, 0 or 1: the lexicographic comparison of two sequences of numbers.
compareKeys(a, b) ==
    IF a = <<>> THEN (IF b = <<>> THEN 0 ELSE -1)
    ELSE IF b = <<>> THEN 1
    ELSE IF a[1] < b[1] THEN -1
    ELSE IF a[1] > b[1] THEN 1
    ELSE compareKeys(Tail(a), Tail(b))

\* left.localeCompare(right), on the spelling of two names: the letters decide
\* first, their case only when the letters are equal.
localeCompare(left, right) ==
    LET primary == compareKeys(primaryKey(left), primaryKey(right))
    IN IF primary # 0 THEN primary
       ELSE compareKeys(tertiaryKey(left), tertiaryKey(right))

\* The comparator of line 386 on two paths of the same folder: the folder part
\* is common, the names decide.
comparePaths(left, right) == localeCompare(Spelling(BaseName(left)), Spelling(BaseName(right)))

RECURSIVE sortByName(_)
\* soundFiles.sort((left, right) => left.localeCompare(right))
sortByName(S) ==
    IF S = {} THEN <<>>
    ELSE LET first == CHOOSE p \in S : \A q \in S : comparePaths(p, q) <= 0
         IN <<first>> \o sortByName(S \ {first})

readSoundFolder(t, folderPath, f) ==
    IF readdirThrows(t, folderPath, f) THEN <<>>
    ELSE sortByName({p \in readdirSync(t, folderPath) : isSoundEntry(t, p)})

resolveEventSoundSets(t, eventFolders, f) ==
    [e \in Events |-> readSoundFolder(t, eventFolders[e], f)]

\* What a scanned folder can look like: missing, a regular file, or a
\* directory in which each name is absent or present as one of its kinds.
ScanListings ==
    {[n \in ScanNames |-> IF n = "sub.wav" THEN sub
                          ELSE IF n = "link.mp3" THEN link
                          ELSE IF n \in files THEN "file" ELSE "absent"] :
        files \in SUBSET (ScanNames \ {"sub.wav", "link.mp3"}),
        sub \in {"absent", "dir", "file"},
        link \in {"absent", "other", "file"}}

ScanNode(k) == IF k = "dir" THEN Dir ELSE IF k = "other" THEN Other
               ELSE IF k = "file" THEN File("user") ELSE Absent

ScanTree(folderKind, l) ==
    [p \in Paths |->
        IF p = <<>> THEN Dir
        ELSE IF p = ScanFolder THEN ScanNode(folderKind)
        ELSE IF Len(p) = 2 /\ Parent(p) = ScanFolder /\ folderKind = "dir"
             THEN ScanNode(l[BaseName(p)])
        ELSE Absent]

ScanTrees ==
    {ScanTree("dir", l) : l \in ScanListings}
    \cup {ScanTree(k, [n \in ScanNames |-> "absent"]) : k \in {"absent", "file"}}

\* SpecScan: resolveEventSoundSets with the "stop" folder configured to be the
\* scanned folder, readable or not.
InitScan ==
    /\ phase = "scan"
    /\ config = [DEFAULT_CONFIG EXCEPT !.eventFolders["stop"] = ScanFolder]
    /\ host = [platform |-> "linux", installed |-> {}, sessions |-> {}, spawnFails |-> FALSE]
    /\ fs \in ScanTrees
    /\ fs0 = fs
    /\ faults \in {{}, {<<"readdir", ScanFolder>>}}
    /\ boot = NoBoot
    /\ EngineUnloaded

\* const soundSets = resolveEventSoundSets(eventFolders)   (index.ts:524)
Scan ==
    /\ phase = "scan"
    /\ soundSets' = resolveEventSoundSets(fs, resolveEventFolders(config), faults)
    /\ scanned' = soundSets'
    /\ phase' = "scanned"
    /\ UNCHANGED <<config, host, fs, fs0, faults, boot, player, startupLog,
                   lastPlayedIndices, missingSoundWarnings, activeSessions, lastStatus,
                   warnCount, exhausted, lastLaunched, children, last>>

NextScan == Scan

SpecScan == InitScan /\ [][NextScan]_vars

-----------------------------------------------------------------------------
(* Playback Selector *)

Range(q) == {q[i] : i \in 1..Len(q)}

\* The values the two Math.random() draws of pickSoundPath can floor to, for a
\* candidate list of length n: <<floor(r*n), floor(r'*(n-1))>>.
Draws(n) == IF n < 2 THEN {<<0, 0>>} ELSE (0..(n - 1)) \X (0..(n - 2))

\* A variant of the assignment that records nothing.
SetIndex_skip(mem, eventName, i) == mem

\* lastPlayedIndices[eventName] = i
SetIndex(mem, eventName, i) ==
    [x \in DOMAIN mem \cup {eventName} |-> IF x = eventName THEN i ELSE mem[x]]

\* A variant of the delete that forgets every event's entry.
DeleteIndex_all(mem, eventName) == NoIndices

\* A variant of the delete that leaves the entry in place.
DeleteIndex_keep(mem, eventName) == mem

\* delete lastPlayedIndices[eventName]
DeleteIndex(mem, eventName) == [x \in DOMAIN mem \ {eventName} |-> mem[x]]

\* A variant of the redraw that can land on the previous index again.
redraw_plain(nextIndex, draw, n) == (nextIndex + draw[2]) % n

\* The redraw of index.ts:423-425.
redraw(nextIndex, draw, n) == (nextIndex + 1 + draw[2]) % n

pickSoundPath(eventName, sets, mem, draw) ==
    LET candidates == sets[eventName]
        n == Len(candidates)
    IN IF n = 0 THEN [path |-> NoPath, mem |-> mem]
       ELSE IF n = 1 THEN [path |-> candidates[1], mem |-> SetIndex(mem, eventName, 0)]
       ELSE LET first == draw[1]
                nextIndex == IF eventName \in DOMAIN mem /\ first = mem[eventName]
                             THEN redraw(first, draw, n)
                             ELSE first
            IN [path |-> candidates[nextIndex + 1],
                mem |-> SetIndex(mem, eventName, nextIndex)]

\* A variant that clears the memory and leaves the path among the candidates.
removeMissingSoundPath_keep(eventName, pathValue, sets, mem) ==
    [sets |-> sets, mem |-> DeleteIndex(mem, eventName)]

removeMissingSoundPath(eventName, pathValue, sets, mem) ==
    [sets |-> [sets EXCEPT ![eventName] = SelectSeq(@, LAMBDA c : c # pathValue)],
     mem |-> DeleteIndex(mem, eventName)]

-----------------------------------------------------------------------------
(* Player Resolver *)

\* A command is a sequence of tokens; "/" and "\\" are the path separators.
isBareCommand_slashOnly(command) == \A i \in 1..Len(command) : command[i] # "/"

isBareCommand(command) == \A i \in 1..Len(command) : command[i] \notin {"/", "\\"}

\* A variant of the probe that finds every command.
commandExists_always(h, command) == TRUE

\* spawnSync(which | where, [command]).status === 0
commandExists(h, command) == command \in h.installed

FFPLAY_ARGS == <<"-loglevel", "quiet", "-nodisp", "-autoexit">>

Resolved(command, args) ==
    [player |-> [command |-> command, args |-> args], warning |-> NoWarning]

resolvePlayer(cfg, h) ==
    IF cfg.playerCommand # <<>>
    THEN IF isBareCommand(cfg.playerCommand) /\ ~commandExists(h, cfg.playerCommand)
         THEN [player |-> NoPlayer, warning |-> Warning("configured-not-found", cfg.playerCommand)]
         ELSE Resolved(cfg.playerCommand, cfg.playerArgs)
    ELSE IF h.platform = "darwin" /\ commandExists(h, <<"afplay">>)
    THEN Resolved(<<"afplay">>, <<>>)
    ELSE IF h.platform = "linux" /\ commandExists(h, <<"paplay">>)
    THEN Resolved(<<"paplay">>, <<>>)
    ELSE IF h.platform = "linux" /\ commandExists(h, <<"aplay">>)
    THEN Resolved(<<"aplay">>, <<>>)
    ELSE IF h.platform = "linux" /\ commandExists(h, <<"ffplay">>)
    THEN Resolved(<<"ffplay">>, FFPLAY_ARGS)
    ELSE [player |-> NoPlayer, warning |-> Warning("no-player-found", CONFIG_PATH)]

\* The commands `which` can find, and the playerCommand/playerArgs a
\* configuration can carry: none, a bare name, and paths with either separator.
KnownCommands == {<<"afplay">>, <<"paplay">>, <<"aplay">>, <<"ffplay">>, <<"mpv">>}

Hosts ==
    [platform : {"darwin", "linux", "win32"}, installed : SUBSET KnownCommands,
     sessions : {{}}, spawnFails : {FALSE}]

PlayerConfigs ==
    {[DEFAULT_CONFIG EXCEPT !.playerCommand = c, !.playerArgs = a] :
        c \in {<<>>, <<"mpv">>, <<"/", "opt", "/", "play">>, <<"bin", "\\", "play">>},
        a \in {<<>>, <<"--quiet">>}}

\* SpecPlayer: resolvePlayer(config) and the logging of its warning, on any
\* configuration and host.
InitPlayer ==
    /\ phase = "resolve"
    /\ config \in PlayerConfigs
    /\ host \in Hosts
    /\ fs = [p \in Paths |-> IF p = <<>> THEN Dir ELSE Absent]
    /\ fs0 = fs
    /\ faults = {}
    /\ boot = NoBoot
    /\ EngineUnloaded

\* const { player, warning } = resolvePlayer(config); if (warning) log(warning)
ResolvePlayer ==
    /\ phase = "resolve"
    /\ LET rp == resolvePlayer(config, host)
       IN /\ player' = rp.player
          /\ startupLog' = IF rp.warning # NoWarning THEN <<rp.warning>> ELSE <<>>
    /\ phase' = "resolved"
    /\ UNCHANGED <<config, host, fs, fs0, faults, boot, soundSets, scanned,
                   lastPlayedIndices, missingSoundWarnings, activeSessions, lastStatus,
                   warnCount, exhausted, lastLaunched, children, last>>

NextPlayer == ResolvePlayer

SpecPlayer == InitPlayer /\ [][NextPlayer]_vars

-----------------------------------------------------------------------------
(* Playback Dispatcher *)

\* A variant of the guard that does not look at the player.
shortCircuits_ignoringPlayer(cfg, pl, eventName) == ~cfg.enabled \/ ~cfg.events[eventName]

\* The guard of index.ts:553.
shortCircuits(cfg, pl, eventName) ==
    ~cfg.enabled \/ ~cfg.events[eventName] \/ pl = NoPlayer

\* existsSync(soundPath) at index.ts:559; present is what the disk holds of the
\* event's candidates while the call runs.  Each candidate is looked up at most
\* once per call, so one set stands for every sequence of answers.
soundExists(present, soundPath) == soundPath \in present

IndexSet(mem, eventName) == IF eventName \in DOMAIN mem THEN {mem[eventName]} ELSE {}

\* One call of pickSoundPath inside play; ps = [sets, mem, path, picks, evicted].
Pick(eventName, ps, draw) ==
    LET r == pickSoundPath(eventName, ps.sets, ps.mem, draw)
    IN [ps EXCEPT !.mem = r.mem, !.path = r.path,
                  !.picks = Append(@, [prev |-> IndexSet(ps.mem, eventName),
                                       n |-> Len(ps.sets[eventName]),
                                       index |-> IF r.path = NoPath THEN {}
                                                 ELSE IndexSet(r.mem, eventName),
                                       path |-> r.path])]

Picks(eventName, ps) == {Pick(eventName, ps, d) : d \in Draws(Len(ps.sets[eventName]))}

\* A variant of the loop test that evicts whatever was selected first.
evicts_always(present, ps) == ps.path # NoPath /\ Len(ps.evicted) = 0

\* while (soundPath && !existsSync(soundPath))   (index.ts:559)
evicts(present, ps) == ps.path # NoPath /\ ~soundExists(present, ps.path)

\* The iterations of the loop the model follows: one more than any folder has
\* files.
LoopCap == MaxFiles + 1

RECURSIVE playLoop(_, _, _)
\* The while loop of play (index.ts:559-562), from a selection just made: the
\* set of states it can end in, over all random draws.  The unrolling stops
\* after LoopCap iterations.
playLoop(eventName, ps, present) ==
    IF evicts(present, ps) /\ Len(ps.evicted) < LoopCap
    THEN LET rm == removeMissingSoundPath(eventName, ps.path, ps.sets, ps.mem)
             ps1 == [ps EXCEPT !.sets = rm.sets, !.mem = rm.mem,
                               !.evicted = Append(@, ps.path)]
         IN UNION {playLoop(eventName, q, present) : q \in Picks(eventName, ps1)}
    ELSE {ps}

\* A variant of the suppression test that never suppresses.
suppressed_never(warned, eventName) == FALSE

\* if (missingSoundWarnings.has(eventName)) return   (index.ts:565)
suppressed(warned, eventName) == eventName \in warned

\* A variant of the guard that lets a disabled event through.
passes_ignoringEvents(cfg, pl, eventName) == cfg.enabled /\ pl # NoPlayer

\* Whether play goes past its first return.
passes(cfg, pl, eventName) == ~shortCircuits(cfg, pl, eventName)

\* What play does once the loop has ended (index.ts:564-586).
finish(eventName, pl, candidates, warned, present, ps) ==
    LET rec == [NoPlay EXCEPT !.event = eventName, !.candidates = candidates,
                              !.present = {p \in present : \E i \in 1..Len(ps.picks) :
                                                                ps.picks[i].path = p},
                              !.picks = ps.picks, !.evicted = ps.evicted]
    IN IF ps.path = NoPath
       THEN [soundSets |-> ps.sets, lastPlayedIndices |-> ps.mem,
             missingSoundWarnings |-> warned \cup {eventName},
             rec |-> [rec EXCEPT !.warned = ~suppressed(warned, eventName)]]
       ELSE [soundSets |-> ps.sets, lastPlayedIndices |-> ps.mem,
             missingSoundWarnings |-> warned,
             rec |-> [rec EXCEPT !.launched = [command |-> pl.command, args |-> pl.args,
                                               path |-> ps.path]]]

\* play(eventName): every outcome the call can have, given the engine's state.
play(eventName, cfg, pl, sets, mem, warned, present) ==
    IF ~passes(cfg, pl, eventName)
    THEN {[soundSets |-> sets, lastPlayedIndices |-> mem, missingSoundWarnings |-> warned,
           rec |-> [NoPlay EXCEPT !.event = eventName, !.shortCircuit = TRUE,
                                  !.candidates = sets[eventName]]]}
    ELSE LET ps0 == [sets |-> sets, mem |-> mem, path |-> NoPath,
                     picks |-> <<>>, evicted |-> <<>>]
         IN {finish(eventName, pl, sets[eventName], warned, present, ps) :
                ps \in UNION {playLoop(eventName, q, present) : q \in Picks(eventName, ps0)}}

\* A handler that calls play(eventName) once, from the given engine state; the
\* disk may hold any of the event's candidates while it runs.
PlayStep(type, session, status, command, eventName, cfg, pl, sets, mem) ==
    \E o \in UNION {play(eventName, cfg, pl, sets, mem, missingSoundWarnings, present) :
                        present \in SUBSET Range(sets[eventName])} :
        /\ soundSets' = o.soundSets
        /\ lastPlayedIndices' = o.lastPlayedIndices
        /\ missingSoundWarnings' = o.missingSoundWarnings
        /\ warnCount' = [warnCount EXCEPT ![eventName] =
                            IF o.rec.warned /\ @ < 2 THEN @ + 1 ELSE @]
        /\ exhausted' = IF ~o.rec.shortCircuit /\ o.rec.launched = NoLaunch
                        THEN exhausted \cup {eventName} ELSE exhausted
        /\ lastLaunched' = [lastLaunched EXCEPT ![eventName] =
                               IF o.rec.shortCircuit THEN @ ELSE o.rec.launched.path]
        /\ children' = IF o.rec.launched # NoLaunch /\ host.spawnFails
                        THEN children \cup {eventName} ELSE children
        /\ last' = Handler(type, session, status, command, <<eventName>>,
                           [o.rec EXCEPT !.previous = lastLaunched[eventName]])

\* A handler that returns without calling play.
NoPlayStep(type, session, status, command) ==
    /\ UNCHANGED <<soundSets, lastPlayedIndices, missingSoundWarnings, warnCount, exhausted,
                   lastLaunched, children>>
    /\ last' = Handler(type, session, status, command, <<>>, NoPlay)

hostVars == <<config, host, fs, fs0, faults, boot, player, startupLog, scanned>>

-----------------------------------------------------------------------------
(* SpecSelector: the Playback Selector on its own *)

SelectorEvents == {"stop", "permission"}

\* The paths an event's folder can hold, and the candidate lists made of them.
FolderPaths(e) == {join(join(DEFAULT_SOUND_ROOT, e), n) : n \in FolderNames(e)}

CandidateLists(e) == {sortByName(S) : S \in SUBSET FolderPaths(e)}

\* Selection memory for the given candidate sets: per event absent, or the
\* index of one of its candidates.
Memories(sets) ==
    {m \in UNION {[D -> 0..(MaxFiles - 1)] : D \in SUBSET SelectorEvents} :
        \A e \in DOMAIN m : m[e] < Len(sets[e])}

InitSelector ==
    /\ phase = "select"
    /\ config = DEFAULT_CONFIG
    /\ host = [platform |-> "linux", installed |-> {}, sessions |-> {}, spawnFails |-> FALSE]
    /\ fs = [p \in Paths |-> IF p = <<>> THEN Dir ELSE Absent]
    /\ fs0 = fs
    /\ faults = {}
    /\ boot = NoBoot
    /\ player = NoPlayer
    /\ startupLog = <<>>
    /\ \E stop \in CandidateLists("stop"), permission \in CandidateLists("permission") :
          soundSets = [e \in Events |-> IF e = "stop" THEN stop
                                        ELSE IF e = "permission" THEN permission
                                        ELSE <<>>]
    /\ scanned = soundSets
    /\ lastPlayedIndices \in Memories(soundSets)
    /\ missingSoundWarnings = {}
    /\ activeSessions = {}
    /\ lastStatus = [s \in Sessions |-> None]
    /\ warnCount = [e \in Events |-> 0]
    /\ exhausted = {}
    /\ lastLaunched = [e \in Events |-> NoPath]
    /\ children = {}
    /\ last = NoHandler

selectorFrame ==
    UNCHANGED <<phase, config, host, fs, fs0, faults, boot, player, startupLog, scanned,
                missingSoundWarnings, activeSessions, lastStatus, warnCount, exhausted,
                lastLaunched, children>>

\* pickSoundPath(eventName, soundSets, lastPlayedIndices), for any random draws.
Select(eventName) ==
    /\ phase = "select"
    /\ \E q \in Picks(eventName, [sets |-> soundSets, mem |-> lastPlayedIndices,
                                    path |-> NoPath, picks |-> <<>>, evicted |-> <<>>]) :
          /\ lastPlayedIndices' = q.mem
          /\ last' = Handler("pickSoundPath", 0, None, None, <<eventName>>,
                             [NoPlay EXCEPT !.event = eventName,
                                            !.candidates = soundSets[eventName],
                                            !.picks = q.picks])
    /\ UNCHANGED soundSets
    /\ selectorFrame

\* removeMissingSoundPath(eventName, pathValue, soundSets, lastPlayedIndices),
\* for a path that is among the candidates or not.
Evict(eventName, pathValue) ==
    /\ phase = "select"
    /\ LET rm == removeMissingSoundPath(eventName, pathValue, soundSets, lastPlayedIndices)
       IN /\ soundSets' = rm.sets
          /\ lastPlayedIndices' = rm.mem
    /\ last' = Handler("removeMissingSoundPath", 0, None, None, <<eventName>>,
                       [NoPlay EXCEPT !.event = eventName,
                                      !.candidates = soundSets[eventName],
                                      !.evicted = <<pathValue>>])
    /\ selectorFrame

SelectAny == \E e \in SelectorEvents : Select(e)

EvictAny == \E e \in SelectorEvents : \E p \in FolderPaths(e) : Evict(e, p)

NextSelector == SelectAny \/ EvictAny

SpecSelector == InitSelector /\ [][NextSelector]_vars

-----------------------------------------------------------------------------
(* Spec: the plugin *)

\* Three of the six events enabled: the ones whose folders the bundled tree fills,
\* and one whose folder stays empty.
NarrowEvents == [e \in Events |-> e \in {"sessionStart", "notification", "permission", "stop"}]

\* Only the startup sound enabled.
StartOnly == [e \in Events |-> e = "sessionStart"]

LinuxHost(sessions) ==
    [platform |-> "linux", installed |-> {<<"paplay">>}, sessions |-> sessions,
     spawnFails |-> FALSE]

FirstRunShape ==
    [cfg |-> "dir", root |-> "absent", stop |-> "absent", perm |-> "absent",
     others |-> FALSE, readme |-> "absent", userSound |-> FALSE]

UserShape ==
    [cfg |-> "dir", root |-> "dir", stop |-> "dir", perm |-> "dir",
     others |-> TRUE, readme |-> "absent", userSound |-> TRUE]

\* The installations the plugin is loaded in: a first run that seeds the full
\* bundled tree, watched through one session; a user's own tree with one clip
\* for "stop", on a host where the player can fail to start; a first run whose
\* startup sound is configured to come from the "stop" folder; and the user's
\* tree under each kind of configuration and with every session.
EngineSetups ==
    {[config |-> [DEFAULT_CONFIG EXCEPT !.events = NarrowEvents],
      tree |-> MakeTree(FirstRunShape, "tree"),
      host |-> LinuxHost({1})]}
    \cup
    {[config |-> [DEFAULT_CONFIG EXCEPT !.events = NarrowEvents],
      tree |-> MakeTree(UserShape, "tree"),
      host |-> [LinuxHost({1}) EXCEPT !.spawnFails = TRUE]]}
    \cup
    {[config |-> [DEFAULT_CONFIG EXCEPT !.events = StartOnly,
                                        !.eventFolders["sessionStart"] =
                                            join(DEFAULT_SOUND_ROOT, "stop")],
      tree |-> MakeTree(FirstRunShape, "tree"),
      host |-> LinuxHost({})]}
    \cup
    {[config |-> c, tree |-> MakeTree(UserShape, "tree"), host |-> LinuxHost(Sessions)] :
        c \in {DEFAULT_CONFIG,
               [DEFAULT_CONFIG EXCEPT !.enabled = FALSE],
               [DEFAULT_CONFIG EXCEPT !.events["stop"] = FALSE],
               [DEFAULT_CONFIG EXCEPT !.playerCommand = <<"mpv">>]}}
    \cup
    {[config |-> DEFAULT_CONFIG, tree |-> MakeTree(UserShape, "tree"), host |-> h] :
        h \in {[platform |-> "linux", installed |-> {}, sessions |-> {1},
                spawnFails |-> FALSE],
               [platform |-> "darwin", installed |-> {<<"paplay">>}, sessions |-> {1},
                spawnFails |-> FALSE]}}

Init ==
    /\ phase = "load"
    /\ \E su \in EngineSetups : config = su.config /\ host = su.host /\ fs = su.tree
    /\ fs0 = fs
    /\ faults = {}
    /\ boot = NoBoot
    /\ EngineUnloaded

\* A variant of the load order that scans the folders before bootstrapping them.
scannedTree_beforeBootstrap(before, st) == before

\* The tree the startup scan reads: bootstrapSoundFolders has returned when
\* resolveEventSoundSets is called (index.ts:523-524).
scannedTree(before, st) == st.fs

\* The plugin function up to its return (index.ts:520-591).
PluginLoad ==
    /\ phase = "load"
    /\ LET eventFolders == resolveEventFolders(config)
           st == bootstrapSoundFolders(fs, config.soundRoot, eventFolders, faults)
           sets == resolveEventSoundSets(scannedTree(fs, st), eventFolders, faults)
           rp == resolvePlayer(config, host)
       IN /\ fs' = st.fs
          /\ fs0' = fs
          /\ boot' = BootRecord("bootstrap", config, st)
          /\ player' = rp.player
          /\ startupLog' = st.warnings \o (IF rp.warning # NoWarning
                                            THEN <<rp.warning>> ELSE <<>>)
          /\ scanned' = sets
          /\ PlayStep("load", 0, None, None, "sessionStart", config, rp.player, sets, NoIndices)
    /\ phase' = "ready"
    /\ UNCHANGED <<config, host, faults, activeSessions, lastStatus>>

\* A variant of the mapping that takes any executed command for a submitted prompt.
eventTrigger_anyCommand(type, command) ==
    IF type = "tui.command.execute" THEN "promptSubmit"
    ELSE IF type = "session.created" THEN "sessionCreated"
    ELSE IF type = "session.error" THEN "notification"
    ELSE IF type = "permission.updated" THEN "permission"
    ELSE None

\* The trigger the event hook raises for a notification other than
\* session.status (index.ts:593-629).
eventTrigger(type, command) ==
    IF type = "tui.command.execute" /\ command = "prompt.submit" THEN "promptSubmit"
    ELSE IF type = "session.created" THEN "sessionCreated"
    ELSE IF type = "session.error" THEN "notification"
    ELSE IF type = "permission.updated" THEN "permission"
    ELSE None

\* The event hook on a notification that is not session.status.
Notify(type, command) ==
    /\ phase = "ready"
    /\ LET eventName == eventTrigger(type, command)
       IN IF eventName = None
          THEN NoPlayStep(type, 0, None, command)
          ELSE PlayStep(type, 0, None, command, eventName, config, player,
                        soundSets, lastPlayedIndices)
    /\ UNCHANGED <<phase, activeSessions, lastStatus>>
    /\ UNCHANGED hostVars

TuiCommandExecute == \E c \in {"prompt.submit", "session.new"} : Notify("tui.command.execute", c)

SessionCreated == Notify("session.created", None)

SessionError == Notify("session.error", None)

PermissionUpdated == Notify("permission.updated", None)

OtherEvent == Notify("message.updated", None)

\* The "permission.ask" hook (index.ts:631-633).
PermissionAsk ==
    /\ phase = "ready"
    /\ PlayStep("permission.ask", 0, None, None, "permission", config, player,
                soundSets, lastPlayedIndices)
    /\ UNCHANGED <<phase, activeSessions, lastStatus>>
    /\ UNCHANGED hostVars

StatusTypes == {"idle", "busy", "retry"}

\* A variant of the idle branch that leaves the session registered.
afterIdle_keep(active, sessionID) == active

\* activeSessions.delete(sessionID)   (index.ts:611)
afterIdle(active, sessionID) == active \ {sessionID}

\* A variant of the test of line 610 that takes any idle status.
stopPending_any(active, sessionID) == TRUE

\* if (activeSessions.has(sessionID))   (index.ts:610)
stopPending(active, sessionID) == sessionID \in active

\* A variant of the non-idle branch that forgets to register the session.
afterStatus_skip(active, sessionID) == active

\* activeSessions.add(sessionID)   (index.ts:618)
afterStatus(active, sessionID) == active \cup {sessionID}

\* The event hook on session.status (index.ts:606-620).
SessionStatus(sessionID, statusType) ==
    /\ phase = "ready"
    /\ IF statusType = "idle"
       THEN IF stopPending(activeSessions, sessionID)
            THEN /\ activeSessions' = afterIdle(activeSessions, sessionID)
                 /\ PlayStep("session.status", sessionID, statusType, None, "stop",
                             config, player, soundSets, lastPlayedIndices)
            ELSE /\ UNCHANGED activeSessions
                 /\ NoPlayStep("session.status", sessionID, statusType, None)
       ELSE /\ activeSessions' = afterStatus(activeSessions, sessionID)
            /\ NoPlayStep("session.status", sessionID, statusType, None)
    /\ lastStatus' = [lastStatus EXCEPT ![sessionID] = statusType]
    /\ UNCHANGED phase
    /\ UNCHANGED hostVars

SessionStatusEvent == \E s \in host.sessions, st \in StatusTypes : SessionStatus(s, st)

\* A variant of the callback that also forgets the event's selection memory,
\* as the dispatcher does for a missing file.
onChildError_reset(eventName, sets, mem, warned, active) ==
    [soundSets |-> sets, lastPlayedIndices |-> DeleteIndex(mem, eventName),
     missingSoundWarnings |-> warned, activeSessions |-> active, errors |-> 1]

\* The body of child.on("error", ...) (index.ts:581-584): one error-level
\* message naming the event; the engine's collections are not touched.
onChildError(eventName, sets, mem, warned, active) ==
    [soundSets |-> sets, lastPlayedIndices |-> mem,
     missingSoundWarnings |-> warned, activeSessions |-> active, errors |-> 1]

\* A spawned player reports that it could not be launched ("error" on the
\* child process), at any time after play has returned.
ChildError(eventName) ==
    /\ phase = "ready"
    /\ eventName \in children
    /\ LET r == onChildError(eventName, soundSets, lastPlayedIndices,
                             missingSoundWarnings, activeSessions)
       IN /\ soundSets' = r.soundSets
          /\ lastPlayedIndices' = r.lastPlayedIndices
          /\ missingSoundWarnings' = r.missingSoundWarnings
          /\ activeSessions' = r.activeSessions
          /\ last' = Handler("child.error", 0, None, None, <<>>,
                             [NoPlay EXCEPT !.event = eventName, !.errors = r.errors])
    /\ children' = children \ {eventName}
    /\ UNCHANGED <<phase, lastStatus, warnCount, exhausted, lastLaunched>>
    /\ UNCHANGED hostVars

ChildErrorEvent == \E e \in Events : ChildError(e)

Next ==
    \/ PluginLoad
    \/ TuiCommandExecute
    \/ SessionCreated
    \/ SessionStatusEvent
    \/ SessionError
    \/ PermissionUpdated
    \/ PermissionAsk
    \/ OtherEvent
    \/ ChildErrorEvent

Spec == Init /\ [][Next]_vars

-----------------------------------------------------------------------------
(* Session tracker and dispatcher claims *)

Count(q, x) == Cardinality({i \in 1..Len(q) : q[i] = x})

\* S is in an active episode: a non-idle status is the last one observed for it.
InEpisode(s) == lastStatus[s] \notin {None, "idle"}

IsIdleOf(h, s) == h.type = "session.status" /\ h.status = "idle" /\ h.session = s

\* C1: every handler raises the "stop" trigger exactly once if it handles an
\* idle notification of a session S that is in an active episode (a non-idle
\* status of S was observed since S's last idle), and zero times otherwise.
C1_StopOncePerEpisode ==
    [][\A s \in Sessions :
          LET raised == IF last'.session = s THEN Count(last'.triggers, "stop") ELSE 0
          IN raised = IF IsIdleOf(last', s) /\ InEpisode(s) THEN 1 ELSE 0]_vars

\* C1 witness: with two sessions active, the idle notification of one of them has
\* raised "stop" and launched the player, the other still being active.
C1_Witness ==
    /\ last.type = "session.status" /\ last.status = "idle"
    /\ last.triggers = <<"stop">>
    /\ last.play.launched # NoLaunch
    /\ activeSessions # {}
    /\ last.session \notin activeSessions

\* C2: a session is in activeSessions iff a non-idle status was observed for it
\* and no idle status has been observed for it since.
C2_RegistryIsEpisodes ==
    activeSessions = {s \in Sessions : InEpisode(s)}

\* C2 witness: one session is registered while another has gone idle and had its
\* stop raised.
C2_Witness ==
    /\ last.triggers = <<"stop">>
    /\ \E s \in Sessions : s \in activeSessions /\ lastStatus[s] = "retry"
    /\ \E s \in Sessions : s \notin activeSessions /\ lastStatus[s] = "idle"

\* C3: with n >= 2 candidates and selection memory p for the event, every call
\* of pickSoundPath returns the element at an index other than p, and each
\* index other than p is returned for some draw; no two consecutive selections
\* made for an event return the same path.
C3_NoImmediateRepeat ==
    /\ \A e \in Events :
          LET n == Len(soundSets[e])
              results == {pickSoundPath(e, soundSets, lastPlayedIndices, d) : d \in Draws(n)}
          IN (n >= 2 /\ e \in DOMAIN lastPlayedIndices) =>
                /\ \A r \in results : /\ r.mem[e] # lastPlayedIndices[e]
                                      /\ r.path = soundSets[e][r.mem[e] + 1]
                /\ {r.mem[e] : r \in results} = (0..(n - 1)) \ {lastPlayedIndices[e]}
    /\ LET picks == last.play.picks
       IN /\ \A i \in 1..Len(picks) :
                (picks[i].n >= 2 /\ picks[i].prev # {}) =>
                    /\ picks[i].index # {}
                    /\ picks[i].index \cap picks[i].prev = {}
          /\ \A i \in 1..(Len(picks) - 1) : picks[i].path # picks[i + 1].path

\* C3 witness: a trigger selected among two or more candidates with the
\* previous selection remembered, and launched the player.
C3_Witness ==
    /\ last.play.launched # NoLaunch
    /\ \E i \in 1..Len(last.play.picks) :
          last.play.picks[i].n >= 2 /\ last.play.picks[i].prev # {}

Played == last.triggers # <<>> /\ ~last.play.shortCircuit

\* C4: a trigger that is not short-circuited ends either with the player
\* launched on a path found on disk that is one of the event's candidates, or
\* with the event's candidate set empty and nothing launched; the paths
\* removed are exactly the selected paths found missing, and none of them was
\* found present.
C4_LoopOutcome ==
    Played =>
      LET r == last.play
          before == Range(r.candidates)
          after == Range(soundSets[r.event])
          launches == /\ r.launched # NoLaunch
                      /\ r.launched.path \in r.present
                      /\ r.launched.path \in after
          exhausts == r.launched = NoLaunch /\ soundSets[r.event] = <<>>
      IN /\ launches \/ exhausts
         /\ ~(launches /\ exhausts)
         /\ Range(r.evicted) \cap r.present = {}
         /\ before \ after = Range(r.evicted)
         /\ after \subseteq before

\* C4 witness: a trigger evicted a missing path and then launched a path it
\* found on disk.
C4_Witness ==
    /\ Played
    /\ Len(last.play.evicted) >= 1
    /\ last.play.launched # NoLaunch
    /\ last.play.launched.path \in last.play.present

\* C5: the "no supported sound files" warning is logged once for an event, by
\* the first trigger that finds the event's candidates exhausted, and never
\* again; events are independent of each other.
C5_OneWarningPerEvent ==
    /\ \A e \in Events : warnCount[e] = IF e \in exhausted THEN 1 ELSE 0
    /\ (Played /\ last.play.warned) => last.play.launched = NoLaunch

\* C5 witness: two events are exhausted, the last trigger found its event
\* exhausted again and logged nothing.
C5_Witness ==
    /\ Played
    /\ last.play.launched = NoLaunch
    /\ ~last.play.warned
    /\ Cardinality(exhausted) >= 2

\* The three conditions under which play returns at once.
ShortCircuited(e) == ~config.enabled \/ ~config.events[e] \/ player' = NoPlayer

\* C6: when the feature is disabled, the triggered event is disabled, or no
\* player was resolved, a trigger launches nothing, logs nothing, selects and
\* evicts nothing, and leaves the candidate sets, the selection memory and the
\* missing-sound warning set as they were.
C6_ShortCircuitNoOp ==
    [][(last'.triggers # <<>> /\ ShortCircuited(last'.triggers[1])) =>
          /\ last'.play.launched = NoLaunch
          /\ ~last'.play.warned
          /\ last'.play.picks = <<>> /\ last'.play.evicted = <<>>
          /\ warnCount' = warnCount
          /\ IF phase = "ready"
             THEN UNCHANGED <<soundSets, lastPlayedIndices, missingSoundWarnings>>
             ELSE /\ soundSets' = resolveEventSoundSets(fs', resolveEventFolders(config), faults)
                  /\ lastPlayedIndices' = NoIndices
                  /\ missingSoundWarnings' = {}]_vars

\* C6 witness: "stop" is disabled in an otherwise enabled configuration with a
\* player and a candidate on hand, and its trigger was a no-op.
C6_Witness ==
    /\ last.triggers = <<"stop">>
    /\ last.play.shortCircuit
    /\ config.enabled /\ player # NoPlayer /\ ~config.events["stop"]
    /\ Len(soundSets["stop"]) >= 1

\* C7: an idle status for a session that is not in the registry changes
\* nothing: the registry, the candidate sets, the selection memory and the
\* warning state stay as they were and no trigger is raised.
C7_IdleWhileAbsentNoOp ==
    [][\A s \in Sessions :
          (IsIdleOf(last', s) /\ s \notin activeSessions) =>
              /\ last'.triggers = <<>>
              /\ UNCHANGED <<activeSessions, soundSets, lastPlayedIndices,
                             missingSoundWarnings, warnCount>>]_vars

\* C7 witness: an idle notification raised nothing although "stop" could have
\* played, the session having gone idle before.
C7_Witness ==
    /\ last.type = "session.status" /\ last.status = "idle"
    /\ last.triggers = <<>>
    /\ config.enabled /\ config.events["stop"] /\ player # NoPlayer
    /\ Len(soundSets["stop"]) >= 1
    /\ \E s \in Sessions : s # last.session /\ s \in activeSessions

-----------------------------------------------------------------------------
(* Bootstrap claims *)

Bootstrapped == phase = "done" /\ boot.op = "bootstrap"

\* The root and the six event folders of the last call.
BootTargets == {boot.soundRoot} \cup {boot.eventFolders[e] : e \in Events}

Warned(p) == \E i \in 1..Len(boot.warnings) : boot.warnings[i].path = p

\* The paths that hold a file now and held none before the call.
NewFiles == {p \in Paths : fs[p].kind = "file" /\ fs0[p].kind # "file"}

RootIsAssets == resolve(boot.soundRoot) = resolve(BUNDLED_ASSETS_ROOT)

\* C8 as stated: when bootstrapSoundFolders returns, the root and every event
\* folder exist as directories.
C8_AllDirectories ==
    Bootstrapped => \A p \in BootTargets : isDirectory(fs, p)

\* C8, amended: when bootstrapSoundFolders returns, each of the root and the six
\* event folders either exists as a directory or was reported in a returned
\* warning (it exists but is not a directory, could not be inspected, or could
\* not be created).
C8_DirectoryOrWarning ==
    Bootstrapped => \A p \in BootTargets : isDirectory(fs, p) \/ Warned(p)

\* C8 witness: a call that created a missing event folder and returned with the
\* "stop" folder still a regular file, reported.
C8_Witness ==
    /\ Bootstrapped
    /\ isDirectory(fs, boot.soundRoot)
    /\ fs[resolve(boot.eventFolders["stop"])].kind = "file"
    /\ Warned(boot.eventFolders["stop"])
    /\ \E e \in Events : /\ ~existsSync(fs0, boot.eventFolders[e])
                         /\ isDirectory(fs, boot.eventFolders[e])

\* C9: a bootstrap call copies bundled files only when the sound root did not
\* exist before the call; a call in which the root existed copies nothing even
\* if event folders were missing, and a call whose resolved sound root is the
\* bundled-assets root copies nothing.
C9_SeedOnlyNewRoot ==
    Bootstrapped =>
        /\ existsSync(fs0, boot.soundRoot) => boot.copied = {} /\ NewFiles = {}
        /\ RootIsAssets => boot.copied = {} /\ NewFiles = {}
        /\ boot.copied \subseteq NewFiles

\* C9 witness: the root existed, event folders were missing and have been
\* created, the bundled tree was there to copy, and nothing was copied.
C9_Witness ==
    /\ Bootstrapped
    /\ isDirectory(fs0, boot.soundRoot)
    /\ ~RootIsAssets
    /\ isDirectory(fs0, BUNDLED_ASSETS_ROOT)
    /\ \A e \in Events : ~existsSync(fs0, boot.eventFolders[e])
    /\ \A e \in Events : isDirectory(fs, boot.eventFolders[e])
    /\ boot.copied = {}

\* C10: bootstrap never overwrites or deletes: every file and directory that
\* existed before the call (or before the tree merge) is still there with the
\* same content, a user file at the path of a bundled file included; only
\* paths that were absent are filled.
C10_NeverOverwrites ==
    phase = "done" => \A p \in Paths : fs0[p].kind # "absent" => fs[p] = fs0[p]

\* C10 witness: the merge ran over a destination holding a user file at the
\* relative path of a bundled file, copied some other bundled file, and the
\* user file still has the user's content.
C10_Witness ==
    /\ phase = "done"
    /\ boot.op = "seed"
    /\ boot.copied # {}
    /\ \E e \in Events : \E n \in FolderNames(e) :
          /\ fs0[join(join(DEFAULT_SOUND_ROOT, e), n)] = File("user")
          /\ fs0[join(join(BUNDLED_ASSETS_ROOT, e), n)] = File("bundled")
          /\ fs[join(join(DEFAULT_SOUND_ROOT, e), n)] = File("user")

\* C11: bootstrap is idempotent: a second call with the same sound root and
\* event folders leaves the tree exactly as the first call left it (no node
\* created, removed or changed) and copies nothing.
C11_BootstrapIdempotent ==
    phase = "again" => fs = fs0 /\ boot.copied = {}

\* C11 witness: the second call ran on a root the first call had created and
\* seeded from the bundled tree, with every event folder in place.
C11_Witness ==
    /\ phase = "again"
    /\ ~RootIsAssets
    /\ fs0[join(DEFAULT_SOUND_ROOT, "README.md")] = File("bundled")
    /\ \E n \in FolderNames("stop") :
          fs0[join(join(DEFAULT_SOUND_ROOT, "stop"), n)] = File("bundled")
    /\ \A e \in Events : isDirectory(fs0, boot.eventFolders[e])

-----------------------------------------------------------------------------
(* Player resolver claims *)

HasSeparator(command) == \E i \in 1..Len(command) : command[i] \in {"/", "\\"}

\* The defaults of the host's platform, highest priority first.
PlatformDefaults(h) ==
    IF h.platform = "darwin" THEN <<(<<"afplay">>)>>
    ELSE IF h.platform = "linux" THEN <<(<<"paplay">>), <<"aplay">>, <<"ffplay">>>>
    ELSE <<>>

Discoverable(h) == {i \in 1..Len(PlatformDefaults(h)) : PlatformDefaults(h)[i] \in h.installed}

\* C12: a configured bare command that `which` does not find makes resolution
\* fail with a warning naming that command, whatever defaults are installed; a
\* configured command holding a path separator is accepted as the player with
\* the configured arguments, found or not, and without a warning.
C12_ConfiguredCommand ==
    (phase = "resolved" /\ config.playerCommand # <<>>) =>
        /\ (~HasSeparator(config.playerCommand) /\ config.playerCommand \notin host.installed) =>
              /\ player = NoPlayer
              /\ startupLog = <<[kind |-> "configured-not-found", path |-> config.playerCommand]>>
        /\ HasSeparator(config.playerCommand) =>
              /\ player = [command |-> config.playerCommand, args |-> config.playerArgs]
              /\ startupLog = <<>>

\* C12 witness: a configured path written with backslashes, not on the search
\* path, was accepted with its arguments while a default player was installed.
C12_Witness ==
    /\ phase = "resolved"
    /\ config.playerCommand = <<"bin", "\\", "play">>
    /\ config.playerArgs # <<>>
    /\ config.playerCommand \notin host.installed
    /\ Discoverable(host) # {}
    /\ player.command = config.playerCommand

\* C13: with no command configured, the player is the first discoverable
\* default of the platform: afplay on macOS; paplay, then aplay, then ffplay
\* on Linux; only ffplay is given arguments (-loglevel quiet -nodisp
\* -autoexit), and no warning is logged.
C13_FirstDiscoverableDefault ==
    (phase = "resolved" /\ config.playerCommand = <<>> /\ Discoverable(host) # {}) =>
        LET first == CHOOSE i \in Discoverable(host) : \A j \in Discoverable(host) : i <= j
            command == PlatformDefaults(host)[first]
        IN /\ player.command = command
           /\ player.args = IF command = <<"ffplay">>
                             THEN <<"-loglevel", "quiet", "-nodisp", "-autoexit">>
                             ELSE <<>>
           /\ startupLog = <<>>

\* C13 witness: on Linux with aplay and ffplay installed and paplay missing,
\* aplay was chosen.
C13_Witness ==
    /\ phase = "resolved"
    /\ config.playerCommand = <<>>
    /\ host.platform = "linux"
    /\ host.installed = {<<"aplay">>, <<"ffplay">>, <<"afplay">>}
    /\ player = [command |-> <<"aplay">>, args |-> <<>>]

PlayerWarnings ==
    {i \in 1..Len(startupLog) : startupLog[i].kind \in {"no-player-found", "configured-not-found"}}

\* C14: with no command configured and no default discoverable, loading logs
\* exactly one player warning (naming the configuration file) and leaves the
\* plugin without a player; from then on every trigger, of any event, launches
\* nothing, logs nothing and changes no playback state.
C14_NoPlayerSilent ==
    (phase = "ready" /\ config.playerCommand = <<>> /\ Discoverable(host) = {}) =>
        /\ player = NoPlayer
        /\ Cardinality(PlayerWarnings) = 1
        /\ \A i \in PlayerWarnings :
              startupLog[i] = [kind |-> "no-player-found", path |-> CONFIG_PATH]
        /\ last.play.launched = NoLaunch
        /\ ~last.play.warned
        /\ last.play.picks = <<>>
        /\ \A e \in Events : warnCount[e] = 0
        /\ missingSoundWarnings = {}
        /\ lastPlayedIndices = NoIndices

\* C14 witness: without a player, on a host whose only installed player is
\* another platform's default, a session went idle, "stop" was triggered with a
\* clip on hand, and nothing happened.
C14_Witness ==
    /\ phase = "ready"
    /\ config.playerCommand = <<>> /\ Discoverable(host) = {}
    /\ host.installed # {}
    /\ startupLog = <<[kind |-> "no-player-found", path |-> CONFIG_PATH]>>
    /\ last.triggers = <<"stop">>
    /\ last.play.shortCircuit
    /\ Len(soundSets["stop"]) >= 1

-----------------------------------------------------------------------------
(* Playback Selector claims *)

\* C15: for a candidate set of size 1, every selection returns that single
\* element and records index 0 as the event's selection memory, whatever the
\* memory held and however often selection is repeated; it never returns
\* "no candidates".
C15_SingletonSelection ==
    /\ \A e \in SelectorEvents :
          Len(soundSets[e]) = 1 =>
              \A d \in Draws(1) :
                  LET r == pickSoundPath(e, soundSets, lastPlayedIndices, d)
                      again == pickSoundPath(e, soundSets, r.mem, d)
                  IN /\ r.path = soundSets[e][1]
                     /\ e \in DOMAIN r.mem /\ r.mem[e] = 0
                     /\ again = r
    /\ (last.type = "pickSoundPath" /\ Len(last.play.candidates) = 1) =>
          /\ last.play.picks[1].path = last.play.candidates[1]
          /\ last.play.picks[1].path # NoPath
          /\ last.play.picks[1].index = {0}
          /\ last.triggers[1] \in DOMAIN lastPlayedIndices
          /\ lastPlayedIndices[last.triggers[1]] = 0

\* C15 witness: a selection from a set of one was made with the memory
\* already holding index 0, the other event having more than one candidate.
C15_Witness ==
    /\ last.type = "pickSoundPath"
    /\ Len(last.play.candidates) = 1
    /\ last.play.picks[1].prev = {0}
    /\ last.play.picks[1].path # NoPath
    /\ \E e \in SelectorEvents : Len(soundSets[e]) >= 2

-----------------------------------------------------------------------------
(* Event adapter claims *)

\* C17: every notification raises at most one trigger, fixed by its type:
\* plugin load raises sessionStart; session.created raises sessionCreated;
\* tui.command.execute raises promptSubmit when its command is prompt.submit
\* and nothing otherwise; session.error raises notification;
\* permission.updated and permission.ask raise permission; session.status
\* raises stop or nothing; any other notification raises nothing.
C17_TriggerMapping ==
    /\ Len(last.triggers) <= 1
    /\ last.type = "load" => last.triggers = <<"sessionStart">>
    /\ last.type = "session.created" => last.triggers = <<"sessionCreated">>
    /\ last.type = "tui.command.execute" =>
          last.triggers = IF last.command = "prompt.submit" THEN <<"promptSubmit">> ELSE <<>>
    /\ last.type = "session.error" => last.triggers = <<"notification">>
    /\ last.type \in {"permission.updated", "permission.ask"} =>
          last.triggers = <<"permission">>
    /\ last.type = "session.status" => last.triggers \in {<<>>, <<"stop">>}
    /\ last.type \notin {"load", "session.created", "tui.command.execute", "session.error",
                          "permission.updated", "permission.ask", "session.status"} =>
          last.triggers = <<>>
    /\ \A i \in 1..Len(last.triggers) : last.play.event = last.triggers[i]

\* C17 witness: a tui.command.execute notification carrying another command
\* raised nothing, with a player resolved and the feature enabled.
C17_Witness ==
    /\ last.type = "tui.command.execute"
    /\ last.command = "session.new"
    /\ last.triggers = <<>>
    /\ config.enabled /\ config.events["promptSubmit"] /\ player # NoPlayer

-----------------------------------------------------------------------------
(* Folder Scanner claims *)

\* The names of the scanned folder that are sound files when they are regular
\* files, in ascending collation order.
SoundNamesInOrder == <<"a.ogg", "A.OGG", "b.wav", "c.mp3", "link.mp3", "sub.wav", "Z.Mp3">>

ScanReadable == isDirectory(fs, ScanFolder) /\ faults = {}

\* C18: the scanner returns exactly the regular files directly inside the
\* folder whose name does not start with "." and whose extension is .ogg, .wav
\* or .mp3 in any letter case, as full paths in ascending (localeCompare) order
\* without duplicates; a missing or unreadable folder, or one that is not a
\* directory, yields the empty sequence.
C18_ScannerResult ==
    phase = "scanned" =>
        LET result == soundSets["stop"]
            expected == SelectSeq([i \in 1..Len(SoundNamesInOrder) |->
                                      join(ScanFolder, SoundNamesInOrder[i])],
                                  LAMBDA p : fs[p].kind = "file")
        IN /\ result = IF ScanReadable THEN expected ELSE <<>>
           /\ \A i, j \in 1..Len(result) : i # j => result[i] # result[j]
           /\ \A e \in Events \ {"stop"} : soundSets[e] = <<>>

\* C18 witness: a folder holding a.ogg, b.wav, c.mp3, d.txt and .hidden.ogg,
\* together with an upper-case sound file, a sub-directory and a link with
\* sound names, was scanned.
C18_Witness ==
    /\ phase = "scanned"
    /\ ScanReadable
    /\ \A n \in {"a.ogg", "b.wav", "c.mp3", "d.txt", ".hidden.ogg", "A.OGG", "g.ogg.txt"} :
          fs[join(ScanFolder, n)].kind = "file"
    /\ fs[join(ScanFolder, "sub.wav")].kind = "dir"
    /\ fs[join(ScanFolder, "link.mp3")].kind = "other"
    /\ fs[join(ScanFolder, "Z.Mp3")].kind = "absent"
    /\ Len(soundSets["stop"]) = 4

-----------------------------------------------------------------------------
(* Dispatcher loop claims *)

\* C19: the evict-and-retry loop of play ends: from n candidates it makes at
\* most n evictions and n + 1 selections, each eviction leaving one candidate
\* fewer to select from, whichever of the candidates are on disk.
C19_LoopTerminates ==
    Played =>
        LET r == last.play
            n == Len(r.candidates)
        IN /\ Len(r.evicted) <= n
           /\ Len(r.picks) <= n + 1
           /\ Len(r.picks) = Len(r.evicted) + 1
           /\ \A k \in 1..Len(r.picks) : r.picks[k].n = n - (k - 1)
           /\ Len(soundSets[r.event]) = n - Len(r.evicted)
           /\ \A i, j \in 1..Len(r.evicted) : i # j => r.evicted[i] # r.evicted[j]

\* C19 witness: a trigger found none of its several candidates on disk,
\* evicted every one of them and selected once more.
C19_Witness ==
    /\ Played
    /\ Len(last.play.candidates) >= 2
    /\ Len(last.play.evicted) = Len(last.play.candidates)
    /\ Len(last.play.picks) = Len(last.play.candidates) + 1
    /\ last.play.launched = NoLaunch

\* The trigger launched the player, and so did the previous trigger of the
\* same event; the file was chosen among two candidates or more.
LaunchedAgain ==
    /\ Played
    /\ last.play.launched # NoLaunch
    /\ last.play.previous # NoPath
    /\ last.play.picks[Len(last.play.picks)].n >= 2

\* C20 as stated: of two consecutive triggers of an event that both launch the
\* player, the second launches a different file from the first whenever it
\* chose among more than one candidate, evictions during the second trigger
\* included.
C20_NoRepeatAcrossTriggers ==
    LaunchedAgain => last.play.launched.path # last.play.previous

\* C20, amended: of two consecutive triggers of an event that both launch the
\* player, the second launches a different file from the first whenever it
\* chose among more than one candidate and evicted no file.
C20_NoRepeatWithoutEviction ==
    (LaunchedAgain /\ last.play.evicted = <<>>) =>
        last.play.launched.path # last.play.previous

\* C20 witness: the second of two launching triggers chose among three
\* candidates, evicted nothing and launched another file than the first.
C20_Witness ==
    /\ LaunchedAgain
    /\ last.play.evicted = <<>>
    /\ Len(last.play.candidates) >= 3
    /\ last.play.launched.path # last.play.previous

-----------------------------------------------------------------------------
(* Spawn failure claims *)

\* What a trigger of the event could do from the current state.
PlayOutcomes(e) ==
    UNION {play(e, config, player, soundSets, lastPlayedIndices, missingSoundWarnings, present) :
              present \in SUBSET Range(soundSets[e])}

\* C21: a launch failure reported by a spawned player, whenever it arrives,
\* logs one error and nothing else: it raises no trigger and launches nothing
\* (no retry), leaves the candidate sets, selection memory, session registry
\* and warning state as they were, and every event's next trigger can do
\* exactly what it could have done without the failure.
C21_SpawnFailureIsolated ==
    [][last'.type = "child.error" =>
          /\ last'.play.errors = 1
          /\ ~last'.play.warned
          /\ last'.triggers = <<>>
          /\ last'.play.launched = NoLaunch
          /\ UNCHANGED <<soundSets, lastPlayedIndices, activeSessions,
                         missingSoundWarnings, warnCount, player, config>>
          /\ \A e \in Events : PlayOutcomes(e)' = PlayOutcomes(e)]_vars

\* C21 witness: the failure of a "stop" player arrived after the session had
\* become active again, the selection memory of "stop" still holding the index
\* of the file that failed to play.
C21_Witness ==
    /\ last.type = "child.error"
    /\ last.play.event = "stop"
    /\ activeSessions # {}
    /\ "stop" \in DOMAIN lastPlayedIndices
    /\ Len(soundSets["stop"]) >= 1
    /\ lastLaunched["stop"] # NoPath

-----------------------------------------------------------------------------
(* Startup order claims *)

\* C22: startup runs in a fixed order before any notification is handled: the
\* candidate sets the engine starts with are the scan of the tree bootstrap left
\* (files seeded by this very load included), the startup trigger chooses among
\* the scanned "sessionStart" candidates and launches the resolved player, and
\* "sessionStart" is raised once, by the load and by nothing after it; no
\* handler runs before the load and the load never runs again.
C22_StartupOrder ==
    [][/\ phase = "load" => /\ last'.type = "load"
                            /\ phase' = "ready"
       /\ phase = "ready" => /\ phase' = "ready"
                             /\ last'.type # "load"
                             /\ last'.triggers # <<"sessionStart">>
       /\ last'.type = "load" =>
            LET scan == resolveEventSoundSets(fs', resolveEventFolders(config), faults)
            IN /\ last'.triggers = <<"sessionStart">>
               /\ last'.play.candidates = scan["sessionStart"]
               /\ \A e \in Events \ {"sessionStart"} : soundSets'[e] = scan[e]
               /\ \A e \in Events : \A f \in boot'.copied :
                     (Parent(f) = resolveEventFolders(config)[e]
                        /\ isSoundEntry(fs', f))
                     => f \in Range(scan[e])
               /\ player' = resolvePlayer(config, host).player
               /\ last'.play.launched # NoLaunch =>
                     /\ player' # NoPlayer
                     /\ last'.play.launched.command = player'.command]_vars

\* C22 witness: on a first run the startup trigger launched a file that the
\* bootstrap of the same load had just copied from the bundled tree.
C22_Witness ==
    /\ last.type = "load"
    /\ phase = "ready"
    /\ last.play.launched # NoLaunch
    /\ last.play.launched.path \in boot.copied
    /\ fs0[last.play.launched.path] = Absent

-----------------------------------------------------------------------------
(* Tree merge failure claims *)

\* The destination of a bundled path under the sound root of the call.
Destination(b) ==
    resolve(boot.soundRoot \o SubSeq(b, Len(BUNDLED_ASSETS_ROOT) + 1, Len(b)))

BundledFiles ==
    {b \in Paths : IsPrefix(BUNDLED_ASSETS_ROOT, b) /\ fs0[b].kind = "file"
                    /\ b # BUNDLED_ASSETS_ROOT}

\* The bundled directories a bundled file lies in, the root included.
BundledAncestors(b) ==
    {a \in Paths : IsPrefix(BUNDLED_ASSETS_ROOT, a) /\ IsPrefix(a, b) /\ a # b}

WarnedPaths == {resolve(boot.warnings[i].path) : i \in 1..Len(boot.warnings)}

\* The tree merge was reached by the call.
MergeRan ==
    /\ phase = "done"
    /\ resolve(boot.soundRoot) # resolve(BUNDLED_ASSETS_ROOT)
    /\ \/ boot.op = "seed"
       \/ /\ boot.op = "bootstrap"
          /\ ~existsSync(fs0, boot.soundRoot)
          /\ resolve(boot.soundRoot) \notin WarnedPaths

\* Nothing was reported about the copy of b or about a directory above it, on
\* the bundled side or on the destination side.
NoFailureOn(b) ==
    /\ Destination(b) \notin WarnedPaths
    /\ \A a \in BundledAncestors(b) :
          a \notin WarnedPaths /\ Destination(a) \notin WarnedPaths

\* The failure a warning of the merge reports did happen.
RealFailure(w) ==
    IF w.kind = "copy-failed"
    THEN /\ ~existsSync(fs, w.path)
         /\ \/ Fails(faults, "copy", w.path)
            \/ ~isDirectory(fs0, Parent(resolve(w.path)))
    ELSE IF w.kind = "read-failed"
    THEN readdirThrows(fs0, w.path, faults)
    ELSE IF w.kind = "create-failed"
    THEN ~existsSync(fs, w.path) /\ mkdirThrows(fs0, w.path, faults)
    ELSE IF w.kind = "not-a-directory"
    THEN existsSync(fs0, w.path) /\ ~isDirectory(fs0, w.path)
    ELSE IF w.kind = "inspect-failed"
    THEN Fails(faults, "stat", w.path)
    ELSE IF w.kind = "assets-not-found"
    THEN ~existsSync(fs0, BUNDLED_ASSETS_ROOT)
    ELSE IF w.kind = "assets-not-a-directory"
    THEN ~isDirectory(fs0, BUNDLED_ASSETS_ROOT)
    ELSE FALSE

\* C23: the tree merge continues past errors: after it ran, every bundled file
\* is present at the destination unless a warning reports the failure of its
\* own copy or of a directory above it; every warning reports a failure that
\* did happen, and the merge reports no failure twice.
C23_MergeContinuesOnError ==
    MergeRan =>
        /\ \A b \in BundledFiles : NoFailureOn(b) => existsSync(fs, Destination(b))
        /\ \A i \in 1..Len(boot.warnings) : RealFailure(boot.warnings[i])
        /\ boot.op = "seed" =>
              \A i, j \in 1..Len(boot.warnings) :
                  boot.warnings[i] = boot.warnings[j] => i = j

\* C23 witness: the copy of one bundled clip failed and was reported, and a
\* sibling clip of the same folder, a file of another folder and the readme
\* were copied all the same.
C23_Witness ==
    /\ MergeRan
    /\ \E n \in FolderNames("stop") :
          /\ Warning("copy-failed", join(join(boot.soundRoot, "stop"), n))
                \in Range(boot.warnings)
          /\ \E m \in FolderNames("stop") \ {n} :
                join(join(boot.soundRoot, "stop"), m) \in boot.copied
    /\ \E m \in FolderNames("permission") :
          join(join(boot.soundRoot, "permission"), m) \in boot.copied
    /\ join(boot.soundRoot, "README.md") \in boot.copied

-----------------------------------------------------------------------------
(* Selection memory claims *)

\* C24: between triggers, whenever an event has a selection memory its index
\* is a valid position of the event's candidate list (0 <= index < size) and
\* the path at that position is the path most recently launched for the
\* event; an event whose candidate list is empty has no memory.
C24_MemoryNamesLastLaunched ==
    /\ \A e \in DOMAIN lastPlayedIndices :
          /\ lastPlayedIndices[e] \in 0..(Len(soundSets[e]) - 1)
          /\ soundSets[e][lastPlayedIndices[e] + 1] = lastLaunched[e]
    /\ \A e \in Events : soundSets[e] = <<>> => e \notin DOMAIN lastPlayedIndices

\* C24 witness: a trigger evicted a file, then launched another one that is not
\* the first of the remaining candidates, and the memory holds its position;
\* another event has run out of candidates.
C24_Witness ==
    /\ \E e \in DOMAIN lastPlayedIndices :
          /\ last.play.event = e
          /\ last.play.evicted # <<>>
          /\ lastPlayedIndices[e] >= 1
          /\ last.play.launched.path = soundSets[e][lastPlayedIndices[e] + 1]
    /\ \E e \in exhausted : last.play.event # e /\ soundSets[e] = <<>>

-----------------------------------------------------------------------------
(* Candidate set claims *)

\* a is b with some elements left out, the others in b's order (b has no
\* repeated element).
IsSubsequence(a, b) == a = SelectSeq(b, LAMBDA x : x \in Range(a))

\* C25: candidate sets only shrink after startup: after every step each set is
\* a sub-sequence of the set scanned at startup and of what it was before the
\* step; a trigger selects only paths that were candidates when it began and
\* none of the paths it evicts is a candidate afterwards, so an evicted path is
\* never selected again; a trigger of an event whose set is empty launches
\* nothing and leaves it empty.
C25_SetsOnlyShrink ==
    [][/\ \A e \in Events :
             /\ IsSubsequence(soundSets'[e], scanned'[e])
             /\ phase = "ready" => IsSubsequence(soundSets'[e], soundSets[e])
       /\ (phase = "ready" /\ last'.triggers # <<>>) =>
             LET e == last'.play.event IN
             /\ \A i \in 1..Len(last'.play.picks) :
                   last'.play.picks[i].path # NoPath =>
                       last'.play.picks[i].path \in Range(soundSets[e])
             /\ \A i \in 1..Len(last'.play.evicted) :
                   last'.play.evicted[i] \notin Range(soundSets'[e])
             /\ soundSets[e] = <<>> =>
                   /\ last'.play.launched = NoLaunch
                   /\ soundSets'[e] = <<>>]_vars

\* C25 witness: an event whose startup scan found files has lost all of them
\* to evictions, and a later trigger of it, with the feature on and a player
\* resolved, found the set empty and launched nothing.
C25_Witness ==
    /\ phase = "ready"
    /\ last.triggers # <<>>
    /\ ~last.play.shortCircuit
    /\ scanned[last.play.event] # <<>>
    /\ last.play.candidates = <<>>
    /\ last.play.launched = NoLaunch

-----------------------------------------------------------------------------
(* Frame claims *)

\* The state play keeps for one event.
EventState(e, sets, mem, warned) ==
    [candidates |-> sets[e], memory |-> IndexSet(mem, e), warned |-> e \in warned]

\* C26: a trigger of event e leaves the candidate set, selection memory and
\* warning flag of every other event as they were (at load: as the scan and
\* the empty collections had them), and play itself leaves the session
\* registry alone: after a handler that raised a trigger the registry differs
\* only by the session an idle notification removed before calling play.  A
\* session.status notification that is not idle raises no trigger and changes
\* nothing but the registry.
C26_TriggerFrame ==
    [][/\ last'.triggers # <<>> =>
            LET e == last'.play.event
                before == IF phase = "load" THEN scanned' ELSE soundSets
            IN /\ \A x \in Events \ {e} :
                     EventState(x, soundSets', lastPlayedIndices', missingSoundWarnings')
                       = EventState(x, before, lastPlayedIndices, missingSoundWarnings)
               /\ activeSessions' =
                     IF last'.type = "session.status"
                     THEN activeSessions \ {last'.session}
                     ELSE activeSessions
       /\ (last'.type = "session.status" /\ last'.status # "idle") =>
            /\ last'.triggers = <<>>
            /\ last'.play = NoPlay
            /\ UNCHANGED <<soundSets, lastPlayedIndices, missingSoundWarnings,
                           player, config, fs, warnCount>>]_vars

\* C26 witness: a trigger evicted files of its own event and changed its
\* memory while another event held a selection memory and a third had its
\* warning flag set; the trigger came from an idle notification, which had
\* removed its session from the registry.
C26_Witness ==
    /\ last.triggers # <<>>
    /\ last.play.evicted # <<>>
    /\ last.play.launched # NoLaunch
    /\ \E x \in DOMAIN lastPlayedIndices : x # last.play.event
    /\ \E x \in missingSoundWarnings : x # last.play.event
    /\ last.type = "session.status"
    /\ last.session \notin activeSessions

-----------------------------------------------------------------------------
(* Idle without a stop sound *)

\* No stop sound can be played: the feature or the event is off, no player was
\* resolved, or "stop" has no candidate.
StopUnplayable == shortCircuits(config, player, "stop") \/ soundSets["stop"] = <<>>

\* C27: an idle notification of a registered session removes the session from
\* the registry, and only that session, whether or not a stop sound can be
\* played: also when the feature or "stop" is disabled, no player is resolved
\* or the "stop" candidates are exhausted, in which cases nothing is launched.
\* An idle notification of a session whose last observed status was idle
\* raises no trigger and launches nothing.
C27_IdleAlwaysUnregisters ==
    [][\A s \in Sessions :
          IsIdleOf(last', s) =>
              /\ activeSessions' = activeSessions \ {s}
              /\ (s \in activeSessions /\ StopUnplayable) =>
                     /\ s \notin activeSessions'
                     /\ last'.play.launched = NoLaunch
              /\ lastStatus[s] = "idle" =>
                     /\ last'.triggers = <<>>
                     /\ last'.play.launched = NoLaunch
                     /\ UNCHANGED activeSessions]_vars

\* C27 witness: the idle notification of a registered session found every
\* "stop" candidate missing, launched nothing, and the session is no longer
\* registered.
C27_Witness ==
    /\ last.type = "session.status" /\ last.status = "idle"
    /\ last.triggers = <<"stop">>
    /\ ~last.play.shortCircuit
    /\ last.play.candidates # <<>>
    /\ last.play.launched = NoLaunch
    /\ soundSets["stop"] = <<>>
    /\ last.session \notin activeSessions
    /\ lastStatus[last.session] = "idle"

====
